---- MODULE Spec2Model ----
(***************************************************************************)
(* Model of the prompt store of prompt_manager.py: the in-memory list      *)
(* self.prompts, the primary file prompts.json, its backup                 *)
(* prompts.json.old.bak, the table model shown in the list view, the tray  *)
(* sub-menu and the handlers that read and write them.                     *)
(*                                                                         *)
(* Text is a sequence of one-character strings; " " stands for any         *)
(* whitespace character.  A timestamp is the number of seconds shown by    *)
(* datetime.now().strftime("%Y-%m-%d %H:%M:%S").  A prompt (a Python dict) *)
(* is a function from its keys to its values.                              *)
(***************************************************************************)
EXTENDS Integers, Sequences, FiniteSets, TLC

\* ---------------------------------------------------------------- bounds
\* save_prompt appends only while the store holds fewer records than this
MaxPrompts == 2

\* ---------------------------------------------------------------- inputs
TitleInputs == { <<>>, <<" ">>, <<"a">>, <<"A">> }
ContentInputs == { <<>>, <<" ">>, <<"b", " ">> }
SearchInputs == { <<>>, <<"X", " ">> }
\* the seconds datetime.now() may show; files found at startup carry second 0
Times == { 0, 1 }

\* ---------------------------------------------------------------- text
\* str.strip(): leading and trailing whitespace removed
RECURSIVE lstrip(_)
lstrip(s) == IF s # <<>> /\ Head(s) = " " THEN lstrip(Tail(s)) ELSE s

RECURSIVE rstrip(_)
rstrip(s) ==
    IF s # <<>> /\ s[Len(s)] = " " THEN rstrip(SubSeq(s, 1, Len(s) - 1)) ELSE s

strip_keep(s) == s

strip(s) == rstrip(lstrip(s))

\* str.lower(), one character
lower_char(c) == IF c = "A" THEN "a" ELSE IF c = "X" THEN "x" ELSE c

\* whitespace only
is_blank(s) == \A i \in 1..Len(s) : s[i] = " "

lower(s) == [i \in 1..Len(s) |-> lower_char(s[i])]

\* the Python test  needle in haystack  on str
contains(haystack, needle) ==
    \E i \in 0..(Len(haystack) - Len(needle)) :
        SubSeq(haystack, i + 1, i + Len(needle)) = needle

\* ---------------------------------------------------------------- JSON
\* The text json.dump writes for a list of dicts: one object per record, each a
\* sequence of <<key, quoted value>> members in the dict's key order.
KeyOrder == << "title", "content", "created_at", "modified_at" >>

json_quote(v) == [quoted |-> v]

json_unquote(j) == j.quoted

dump_object(p) ==
    LET ks == SelectSeq(KeyOrder, LAMBDA k : k \in DOMAIN p)
    IN  [i \in 1..Len(ks) |-> << ks[i], json_quote(p[ks[i]]) >>]

json_dump(prompts_) == [i \in 1..Len(prompts_) |-> dump_object(prompts_[i])]

\* json.load of one object: a dict; of a repeated key the last member wins
load_object(o) ==
    LET keys == { o[i][1] : i \in 1..Len(o) }
        last(k) == CHOOSE i \in 1..Len(o) :
                       /\ o[i][1] = k
                       /\ \A j \in 1..Len(o) : o[j][1] = k => j <= i
    IN  [k \in keys |-> json_unquote(o[last(k)][2])]

json_load(text) == [i \in 1..Len(text) |-> load_object(text[i])]

\* ---------------------------------------------------------------- files
\* kind: "absent" (no such file), "json" (a JSON array of objects, in text),
\* "corrupt" (not JSON: json.load raises JSONDecodeError), "nonarray" (valid JSON
\* that is no array of objects, such as 42), "unreadable" (open() raises OSError)
AbsentFile == [kind |-> "absent", text |-> <<>>]
CorruptFile == [kind |-> "corrupt", text |-> <<>>]
NonArrayFile == [kind |-> "nonarray", text |-> <<>>]
UnreadableFile == [kind |-> "unreadable", text |-> <<>>]
JsonFile(text) == [kind |-> "json", text |-> text]

\* ---------------------------------------------------------------- load_prompts
backfill_overwrite(p, now) ==
    [k \in DOMAIN p \cup {"created_at", "modified_at"} |->
        IF k = "created_at" THEN (IF k \in DOMAIN p THEN p[k] ELSE now)
        ELSE IF k = "modified_at" THEN now
        ELSE p[k]]

\* lines 351-354: the two timestamps of an older record
backfill(p, now) ==
    LET p1 == IF "created_at" \notin DOMAIN p
              THEN p @@ ("created_at" :> now) ELSE p
    IN  IF "modified_at" \notin DOMAIN p1
        THEN p1 @@ ("modified_at" :> p1["created_at"]) ELSE p1

\* status "ok": returns data; "warning": the DB Error box, returns [];
\* "crash": an exception the function does not catch leaves it
load_prompts(f, now) ==
    IF f.kind = "absent" THEN [status |-> "ok", data |-> <<>>]
    ELSE IF f.kind = "json"
    THEN [status |-> "ok",
          data |-> [i \in 1..Len(f.text) |-> backfill(json_load(f.text)[i], now)]]
    ELSE IF f.kind = "corrupt" THEN [status |-> "warning", data |-> <<>>]
    ELSE [status |-> "crash", data |-> <<>>]

load_dialogs(r) == IF r.status = "warning" THEN << "DB Error" >> ELSE <<>>

\* ---------------------------------------------------------------- save_prompts
BackupOutcomes == { "ok", "fail" }
WriteOutcomes == { "ok", "open_fail", "dump_fail" }

copyfile_never(src, dst, bk) == dst

\* shutil.copyfile(src, dst): the backup after the copy; a copy that fails to
\* open either file leaves the old backup
copyfile(src, dst, bk) == IF bk = "ok" THEN src ELSE dst

\* lines 374-375: open(PROMPT_DB_FILE, 'w') and json.dump; a dump that fails
\* leaves the truncated file behind
write_file(prompts_, f, wr) ==
    IF wr = "ok" THEN JsonFile(json_dump(prompts_))
    ELSE IF wr = "dump_fail" THEN CorruptFile
    ELSE f

save_prompts(prompts_, f, b, bk, wr) ==
    [file |-> write_file(prompts_, f, wr),
     backup |-> IF f.kind # "absent" THEN copyfile(f, b, bk) ELSE b,
     dialogs |-> (IF f.kind # "absent" /\ bk # "ok" THEN << "Backup Error" >> ELSE <<>>)
                 \o (IF wr # "ok" THEN << "Save Error" >> ELSE <<>>)]

\* ---------------------------------------------------------------- the store
find_title_never(prompts_, title) == 0

\* lines 415-421: index of the first record with this title, 0 if there is none
find_title(prompts_, title) ==
    IF \E i \in 1..Len(prompts_) : prompts_[i]["title"] = title
    THEN CHOOSE i \in 1..Len(prompts_) :
             /\ prompts_[i]["title"] = title
             /\ \A j \in 1..(i - 1) : prompts_[j]["title"] # title
    ELSE 0

\* lines 414-426
upsert(prompts_, title, content, now) ==
    LET i == find_title(prompts_, title)
    IN  IF i # 0
        THEN [prompts_ EXCEPT ![i] =
                 [k \in DOMAIN prompts_[i] |->
                     IF k = "content" THEN content
                     ELSE IF k = "modified_at" THEN now
                     ELSE prompts_[i][k]]]
        ELSE Append(prompts_, [title |-> title, content |-> content,
                               created_at |-> now, modified_at |-> now])

\* at most one record per title
unique_titles(prompts_) ==
    \A i, j \in 1..Len(prompts_) : prompts_[i]["title"] = prompts_[j]["title"] => i = j

\* line 461
remove_title(prompts_, title) ==
    SelectSeq(prompts_, LAMBDA p : p["title"] # title)

\* PromptTableModel.get_prompt_by_row; None is <<>>
get_prompt_by_row(data, row) == IF 1 <= row /\ row <= Len(data) THEN data[row] ELSE <<>>

filter_rows_query_as_typed(prompts_, search_text) ==
    LET q == strip(search_text)
    IN  IF q = <<>> THEN prompts_
        ELSE SelectSeq(prompts_, LAMBDA p :
                 contains(lower(p["title"]), q) \/ contains(lower(p["content"]), q))

\* lines 380-392: the rows filter_prompt_list hands to the table model
filter_rows(prompts_, search_text) ==
    LET q == lower(strip(search_text))
    IN  IF q = <<>> THEN prompts_
        ELSE SelectSeq(prompts_, LAMBDA p :
                 contains(lower(p["title"]), q) \/ contains(lower(p["content"]), q))

\* lines 244-256: the entries of the Saved Prompts sub-menu
tray_entries(prompts_) ==
    IF prompts_ = <<>>
    THEN << [label |-> << "No Prompts Saved" >>, enabled |-> FALSE, payload |-> <<>>] >>
    ELSE [i \in 1..Len(prompts_) |->
             [label |-> prompts_[i]["title"], enabled |-> TRUE,
              payload |-> prompts_[i]["content"]]]

\* ---------------------------------------------------------------- state
VARIABLES
    pc,           \* "start" before __init__, "running" in the event loop, "crashed"
    prompts,      \* self.prompts
    file,         \* PROMPT_DB_FILE
    backup,       \* PROMPT_DB_FILE.with_suffix(".json.old.bak")
    file0_unique, \* whether the store file found at startup had one record per title
    view,         \* self.source_model._data, the rows of the table
    selected,     \* the selected row of the table, 0 if none
    search_text,  \* self.search_input.text()
    tray_menu,    \* the actions of self.prompts_sub_menu while the tray menu is
                  \* open; <<>> once it is closed: aboutToShow rebuilds them before
                  \* they can be seen or chosen again
    clock,        \* the wall clock, as datetime.now() last showed it
    dialogs,      \* the QMessageBox boxes the last handler showed
    lastOp        \* the last handler run, its inputs and the branch it took

vars == << pc, prompts, file, backup, file0_unique, view, selected, search_text,
           tray_menu, clock, dialogs, lastOp >>

\* title, content: the text the handler worked on; blank: an input field held
\* nothing but whitespace
Op(op, title, content, reply, bk, wr, branch) ==
    [op |-> op, title |-> title, content |-> content, blank |-> FALSE,
     reply |-> reply, bk |-> bk, wr |-> wr, branch |-> branch]

Rec(t, c, cr, mo) == [title |-> t, content |-> c, created_at |-> cr, modified_at |-> mo]

\* store files the application may find at startup
InitFiles ==
    { AbsentFile, CorruptFile, NonArrayFile, UnreadableFile,
      JsonFile(<<>>),
      JsonFile(json_dump(<< Rec(<<"a">>, <<"x">>, 0, 0) >>)),
      JsonFile(json_dump(<< Rec(<<"a">>, <<"x">>, 0, 0), Rec(<<"A">>, <<"b">>, 0, 0) >>)),
      JsonFile(json_dump(<< Rec(<<"a">>, <<"x">>, 0, 0), Rec(<<"a">>, <<"b">>, 0, 0) >>)),
      JsonFile(json_dump(<< [title |-> <<"a">>, content |-> <<"x">>] >>)),
      JsonFile(json_dump(<< [title |-> <<"a">>, content |-> <<"x">>, created_at |-> 0] >>)),
      JsonFile(json_dump(<< [title |-> <<"a">>, content |-> <<"x">>, modified_at |-> 0] >>)) }

InitBackups == { AbsentFile }

Init ==
    /\ pc = "start"
    /\ prompts = <<>>
    /\ file \in InitFiles
    /\ file0_unique = (file.kind = "json" => unique_titles(json_load(file.text)))
    /\ backup \in InitBackups
    /\ view = <<>>
    /\ selected = 0
    /\ search_text = <<>>
    /\ tray_menu = <<>>
    /\ clock = 0
    /\ dialogs = <<>>
    /\ lastOp = Op("none", <<>>, <<>>, "none", "none", "none", "none")

\* ---------------------------------------------------------------- actions
\* PromptManagerApp.__init__: load_prompts, init_ui, populate_prompt_list, and
\* at its end update_tray_menu, which loads the file again; the menu is not open
Startup(now) ==
    /\ pc = "start"
    /\ now >= clock
    /\ clock' = now
    /\ LET r == load_prompts(file, now)
       IN  IF r.status = "crash"
           THEN /\ pc' = "crashed"
                /\ lastOp' = Op("startup", <<>>, <<>>, "none", "none", "none", "crash")
                /\ UNCHANGED << prompts, view, dialogs >>
           ELSE /\ pc' = "running"
                /\ prompts' = r.data
                /\ view' = filter_rows(r.data, <<>>)
                /\ dialogs' = load_dialogs(r) \o load_dialogs(r)
                /\ lastOp' = Op("startup", <<>>, <<>>, "none", "none", "none", r.status)
    /\ UNCHANGED << file, backup, file0_unique, selected, search_text, tray_menu >>

\* update_tray_menu, the slot of tray_menu.aboutToShow: the user opens the menu
update_tray_menu(now) ==
    /\ pc = "running"
    /\ now >= clock
    /\ clock' = now
    /\ LET r == load_prompts(file, now)
       IN  IF r.status = "crash"
           THEN /\ pc' = "crashed"
                /\ lastOp' = Op("update_tray_menu", <<>>, <<>>, "none", "none", "none", "crash")
                /\ UNCHANGED << prompts, tray_menu, dialogs >>
           ELSE /\ pc' = pc
                /\ prompts' = r.data
                /\ tray_menu' = tray_entries(r.data)
                /\ dialogs' = load_dialogs(r)
                /\ lastOp' = Op("update_tray_menu", <<>>, <<>>, "none", "none", "none", r.status)
    /\ UNCHANGED << file, backup, file0_unique, view, selected, search_text >>

\* filter_prompt_list, the slot of search_input.textChanged; update_data resets
\* the table model, which clears the selection
filter_prompt_list(text) ==
    /\ pc = "running"
    /\ text # search_text
    /\ search_text' = text
    /\ view' = filter_rows(prompts, text)
    /\ selected' = 0
    /\ tray_menu' = <<>>
    /\ dialogs' = <<>>
    /\ lastOp' = Op("filter_prompt_list", <<>>, <<>>, "none", "none", "none", "none")
    /\ UNCHANGED << pc, prompts, file, backup, file0_unique, clock >>

\* on_prompt_table_selection_changed: the user selects row i of the table (the
\* handler also copies the row into the clipboard and the two input fields,
\* whose text save_prompt takes as its inputs here)
on_prompt_table_selection_changed(i) ==
    /\ pc = "running"
    /\ i \in 1..Len(view)
    /\ i # selected
    /\ selected' = i
    /\ tray_menu' = <<>>
    /\ dialogs' = <<>>
    /\ lastOp' = Op("select", view[i]["title"], <<>>, "none", "none", "none", "none")
    /\ UNCHANGED << pc, prompts, file, backup, file0_unique, view, search_text, clock >>

\* lines 428-433 and 463-467: save_prompts, load_prompts, populate_prompt_list
SaveAndReload(store, op, now) ==
    LET sp == save_prompts(store, file, backup, op.bk, op.wr)
        r == load_prompts(sp.file, now)
    IN  /\ file' = sp.file
        /\ backup' = sp.backup
        /\ IF r.status = "crash"
           THEN /\ pc' = "crashed"
                /\ prompts' = store
                /\ dialogs' = sp.dialogs
                /\ lastOp' = [op EXCEPT !.branch = "crash"]
                /\ UNCHANGED << view, selected >>
           ELSE /\ pc' = pc
                /\ prompts' = r.data
                /\ view' = filter_rows(r.data, search_text)
                /\ selected' = 0
                /\ dialogs' = sp.dialogs \o load_dialogs(r)
                /\ lastOp' = op

\* save_prompt, the slot of the Save Prompt button, with the text of the two
\* input fields
save_prompt(title_text, content_text, bk, wr, now) ==
    /\ pc = "running"
    /\ now >= clock
    /\ clock' = now
    /\ tray_menu' = <<>>
    /\ LET title == strip(title_text)
           content == strip(content_text)
           blank == is_blank(title_text) \/ is_blank(content_text)
       IN  IF title = <<>>
           THEN /\ bk = "none" /\ wr = "none" /\ now = clock
                /\ dialogs' = << "Prompt title cannot be empty." >>
                /\ lastOp' = [Op("save_prompt", <<>>, <<>>, "none", bk, wr, "rejected_title")
                                  EXCEPT !.blank = blank]
                /\ UNCHANGED << pc, prompts, file, backup, view, selected >>
           ELSE IF content = <<>>
           THEN /\ bk = "none" /\ wr = "none" /\ now = clock
                /\ dialogs' = << "Prompt content cannot be empty." >>
                /\ lastOp' = [Op("save_prompt", title, <<>>, "none", bk, wr, "rejected_content")
                                  EXCEPT !.blank = blank]
                /\ UNCHANGED << pc, prompts, file, backup, view, selected >>
           ELSE /\ wr \in WriteOutcomes
                /\ IF file.kind = "absent" THEN bk = "none" ELSE bk \in BackupOutcomes
                /\ find_title(prompts, title) # 0 \/ Len(prompts) < MaxPrompts
                /\ SaveAndReload(upsert(prompts, title, content, now),
                       [Op("save_prompt", title, content, "none", bk, wr,
                           IF find_title(prompts, title) # 0 THEN "modified" ELSE "appended")
                        EXCEPT !.blank = blank], now)
    /\ UNCHANGED << file0_unique, search_text >>

reply_always_yes(reply) == TRUE

\* line 459
confirmed(reply) == reply = "Yes"

\* delete_selected_prompt, the slot of the Delete Selected Prompt button, with
\* the user's answer to the confirmation box
delete_selected_prompt(reply, bk, wr, now) ==
    /\ pc = "running"
    /\ now >= clock
    /\ clock' = now
    /\ tray_menu' = <<>>
    /\ IF selected = 0
       THEN /\ reply = "none" /\ bk = "none" /\ wr = "none" /\ now = clock
            /\ dialogs' = << "No prompt selected for deletion." >>
            /\ lastOp' = Op("delete_selected_prompt", <<>>, <<>>, reply, bk, wr, "no_selection")
            /\ UNCHANGED << pc, prompts, file, backup, view, selected >>
       ELSE IF get_prompt_by_row(view, selected) = <<>>
       THEN /\ reply = "none" /\ bk = "none" /\ wr = "none" /\ now = clock
            /\ dialogs' = << "Could not retrieve selected prompt for deletion." >>
            /\ lastOp' = Op("delete_selected_prompt", <<>>, <<>>, reply, bk, wr, "no_row")
            /\ UNCHANGED << pc, prompts, file, backup, view, selected >>
       ELSE LET title_to_delete == get_prompt_by_row(view, selected)["title"]
                kept == remove_title(prompts, title_to_delete)
            IN  /\ reply \in { "Yes", "No" }
                /\ IF ~confirmed(reply)
                   THEN /\ bk = "none" /\ wr = "none" /\ now = clock
                        /\ dialogs' = <<>>
                        /\ lastOp' = Op("delete_selected_prompt", title_to_delete, <<>>,
                                        reply, bk, wr, "declined")
                        /\ UNCHANGED << pc, prompts, file, backup, view, selected >>
                   ELSE IF Len(kept) < Len(prompts)
                   THEN /\ wr \in WriteOutcomes
                        /\ IF file.kind = "absent" THEN bk = "none" ELSE bk \in BackupOutcomes
                        /\ SaveAndReload(kept,
                               Op("delete_selected_prompt", title_to_delete, <<>>,
                                  reply, bk, wr, "deleted"), now)
                   ELSE /\ bk = "none" /\ wr = "none" /\ now = clock
                        /\ prompts' = kept
                        /\ dialogs' = << "Prompt not found." >>
                        /\ lastOp' = Op("delete_selected_prompt", title_to_delete, <<>>,
                                        reply, bk, wr, "not_found")
                        /\ UNCHANGED << pc, file, backup, view, selected >>
    /\ UNCHANGED << file0_unique, search_text >>

Next ==
    \/ \E now \in Times : Startup(now)
    \/ \E now \in Times : update_tray_menu(now)
    \/ \E text \in SearchInputs : filter_prompt_list(text)
    \/ \E i \in 1..Len(view) : on_prompt_table_selection_changed(i)
    \/ \E title_text \in TitleInputs, content_text \in ContentInputs,
          bk \in BackupOutcomes \cup {"none"}, wr \in WriteOutcomes \cup {"none"},
          now \in Times :
           save_prompt(title_text, content_text, bk, wr, now)
    \/ \E reply \in { "Yes", "No", "none" },
          bk \in BackupOutcomes \cup {"none"}, wr \in WriteOutcomes \cup {"none"},
          now \in Times :
           delete_selected_prompt(reply, bk, wr, now)

Spec == Init /\ [][Next]_vars

\* ---------------------------------------------------------------- properties
Titles(store) == { store[i]["title"] : i \in 1..Len(store) }

\* the handler just run called save_prompts
Saved(op) == op.branch \in { "appended", "modified", "deleted" }

\* C1 (as claimed): in every reachable state, whatever the store file held at
\* startup, self.prompts holds at most one record per title.
C1_AtMostOneRecordPerTitle == unique_titles(prompts)

\* C1 (amended): when the store file found at startup holds at most one record
\* per title, self.prompts holds at most one record per title in every
\* reachable state.
C1_UniqueTitlesKept == file0_unique => unique_titles(prompts)

C1_Witness ==
    /\ file0_unique
    /\ Len(prompts) = 2
    /\ lastOp.op = "save_prompt"
    /\ lastOp.branch = "modified"
    /\ lastOp.wr = "ok"

\* C2: save_prompt with a non-empty title no record has and non-empty content
\* leaves exactly one more record in the store, the added one with that title
\* and content and created_at = modified_at, and the earlier records unchanged.
C2_SaveNewTitleAppends ==
    [][ ( /\ lastOp'.op = "save_prompt"
          /\ lastOp'.title # <<>>
          /\ lastOp'.content # <<>>
          /\ lastOp'.title \notin Titles(prompts) )
        => ( /\ Len(prompts') = Len(prompts) + 1
             /\ prompts'[Len(prompts')]["title"] = lastOp'.title
             /\ prompts'[Len(prompts')]["content"] = lastOp'.content
             /\ prompts'[Len(prompts')]["created_at"] = prompts'[Len(prompts')]["modified_at"]
             /\ SubSeq(prompts', 1, Len(prompts)) = prompts ) ]_vars

\* C3: save_prompt with the exact title of an existing record and non-empty
\* content sets that record's content to the new content and its modified_at to
\* the current time; its created_at, the number of records and every other
\* record stay as they were.
C3_SaveExistingTitleUpdates ==
    [][ ( /\ lastOp'.op = "save_prompt"
          /\ lastOp'.content # <<>>
          /\ lastOp'.title \in Titles(prompts) )
        => ( /\ Len(prompts') = Len(prompts)
             /\ \E i \in 1..Len(prompts) :
                  /\ prompts[i]["title"] = lastOp'.title
                  /\ prompts'[i]["title"] = lastOp'.title
                  /\ prompts'[i]["content"] = lastOp'.content
                  /\ prompts'[i]["modified_at"] = clock'
                  /\ prompts'[i]["created_at"] = prompts[i]["created_at"]
                  /\ \A j \in 1..Len(prompts) : j # i => prompts'[j] = prompts[j] ) ]_vars

\* C4: delete_selected_prompt on a selected record whose title is in the store,
\* confirmed by the user, removes exactly one record: the count drops by one, no
\* record with that title remains and the other records are kept unchanged.
\* Stated for a store that holds the title once.
C4_DeleteRemovesExactlyOne ==
    [][ ( /\ lastOp'.op = "delete_selected_prompt"
          /\ lastOp'.reply = "Yes"
          /\ selected # 0
          /\ lastOp'.title \in Titles(prompts)
          /\ unique_titles(prompts) )
        => ( /\ Len(prompts') = Len(prompts) - 1
             /\ lastOp'.title \notin Titles(prompts')
             /\ prompts' = SelectSeq(prompts, LAMBDA p : p["title"] # lastOp'.title) ) ]_vars

\* C5: when the write of the primary file fails in save_prompt or
\* delete_selected_prompt, the Save Error box is shown and self.prompts still
\* holds the change just made: the new or updated record, or no record of the
\* deleted title.
C5_FailedWriteKeepsChange ==
    [][ ( /\ Saved(lastOp')
          /\ lastOp'.wr \in { "open_fail", "dump_fail" } )
        => ( /\ \E d \in 1..Len(dialogs') : dialogs'[d] = "Save Error"
             /\ IF lastOp'.op = "save_prompt"
                THEN \E i \in 1..Len(prompts') :
                        /\ prompts'[i]["title"] = lastOp'.title
                        /\ prompts'[i]["content"] = lastOp'.content
                ELSE lastOp'.title \notin Titles(prompts') ) ]_vars

\* C6 (as claimed): every save_prompts call that finds a primary file copies it
\* to the backup first, so after each successful save the backup holds what the
\* primary file held just before that save.
C6_BackupIsPreviousGeneration ==
    [][ ( /\ Saved(lastOp')
          /\ file.kind # "absent"
          /\ lastOp'.wr = "ok" )
        => backup' = file ]_vars

\* C6 (amended): every save_prompts call that finds a primary file tries to copy
\* it to the backup before the primary file is opened for writing; when the copy
\* succeeds the backup afterwards holds what the primary file held just before
\* that save, and when it fails the Backup Error box is shown and the primary
\* file is written all the same.
C6_BackupWhenCopySucceeds ==
    [][ ( /\ Saved(lastOp')
          /\ file.kind # "absent" )
        => ( /\ lastOp'.bk = "ok" => backup' = file
             /\ lastOp'.bk # "ok" =>
                  /\ \E d \in 1..Len(dialogs') : dialogs'[d] = "Backup Error"
                  /\ lastOp'.wr = "ok" =>
                       /\ file'.kind = "json"
                       /\ json_load(file'.text) = prompts' ) ]_vars

C6_Witness ==
    /\ Saved(lastOp)
    /\ lastOp.bk = "ok"
    /\ lastOp.wr = "ok"
    /\ backup.kind = "json"
    /\ file.kind = "json"
    /\ backup # file

\* C7: load_prompts never crashes: whatever the store file holds, it returns the
\* records of the file, or shows the corruption warning and returns an empty
\* store.
C7_LoadNeverCrashes == pc # "crashed" /\ lastOp.branch # "crash"

\* C8: a successful save_prompts followed by load_prompts yields the store that
\* was saved: the same records in the same order, each with the same title,
\* content, created_at and modified_at.
C8_SaveLoadRoundTrip ==
    [][ ( /\ Saved(lastOp')
          /\ lastOp'.wr = "ok" )
        => LET saved == IF lastOp'.op = "save_prompt"
                        THEN upsert(prompts, lastOp'.title, lastOp'.content, clock')
                        ELSE remove_title(prompts, lastOp'.title)
           IN  /\ prompts' = saved
               /\ \A t \in Times : load_prompts(file', t) = [status |-> "ok", data |-> saved] ]_vars

C8_Witness ==
    /\ Saved(lastOp)
    /\ lastOp.wr = "ok"
    /\ Len(prompts) = 2
    /\ \E i \in 1..Len(prompts) : prompts[i]["created_at"] # prompts[i]["modified_at"]
    /\ \E i \in 1..Len(prompts) : prompts[i]["created_at"] # clock

\* C9: save_prompt with a title or a content that is empty once its whitespace
\* is stripped shows a validation message and changes neither the store, nor
\* the primary file, nor the backup, whether or not the title is in the store.
C9_EmptyInputRejected ==
    [][ ( /\ lastOp'.op = "save_prompt"
          /\ lastOp'.blank )
        => ( /\ lastOp'.branch \in { "rejected_title", "rejected_content" }
             /\ Len(dialogs') = 1
             /\ dialogs'[1] \in { "Prompt title cannot be empty.",
                                  "Prompt content cannot be empty." }
             /\ prompts' = prompts
             /\ file' = file
             /\ backup' = backup ) ]_vars

C9_Witness ==
    /\ lastOp.op = "save_prompt"
    /\ lastOp.blank
    /\ lastOp.branch = "rejected_content"
    /\ lastOp.title \in Titles(prompts)

\* C10: delete_selected_prompt with no row selected, with a selected title no
\* record of the store has, or with the confirmation declined leaves the
\* records of the store, the primary file and the backup unchanged.
C10_DeleteOnlyWhenConfirmed ==
    [][ ( /\ lastOp'.op = "delete_selected_prompt"
          /\ \/ selected = 0
             \/ lastOp'.reply # "Yes"
             \/ lastOp'.title \notin Titles(prompts) )
        => ( /\ prompts' = prompts
             /\ file' = file
             /\ backup' = backup ) ]_vars

C10_Witness ==
    /\ lastOp.op = "delete_selected_prompt"
    /\ lastOp.reply = "No"
    /\ lastOp.branch = "declined"
    /\ lastOp.title \in Titles(prompts)
    /\ selected # 0

\* the records of store, in store order, whose title or content contains query
\* without regard to case; every record when query is empty
Matching(store, query) ==
    LET hit(i) == \/ query = <<>>
                  \/ contains(lower(store[i]["title"]), lower(query))
                  \/ contains(lower(store[i]["content"]), lower(query))
        idx == { i \in 1..Len(store) : hit(i) }
        nth(k) == CHOOSE i \in idx : Cardinality({ j \in idx : j < i }) = k - 1
    IN  [k \in 1..Cardinality(idx) |-> store[nth(k)]]

C12_TrayRefreshReadOnly ==
    [][ ( /\ lastOp'.op = "update_tray_menu"
          /\ pc' = "running" )
        => ( /\ prompts' = prompts
             /\ file' = file
             /\ backup' = backup
             /\ IF prompts' = <<>>
                THEN /\ Len(tray_menu') = 1
                     /\ ~tray_menu'[1].enabled
                ELSE /\ Len(tray_menu') = Len(prompts')
                     /\ \A i \in 1..Len(prompts') :
                          /\ tray_menu'[i].enabled
                          /\ tray_menu'[i].label = prompts'[i]["title"]
                          /\ tray_menu'[i].payload = prompts'[i]["content"] ) ]_vars

\* C13: every record load_prompts returns has created_at and modified_at; a
\* record of the file with neither gets both set to the time of the load; and
\* no record of the file that lacked one of the two ends with modified_at
\* earlier than created_at.
C13_BackfilledTimestampsOrdered ==
    [][ ( /\ lastOp'.op \in { "startup", "update_tray_menu" }
          /\ pc' = "running"
          /\ file.kind = "json" )
        => \A i \in 1..Len(prompts') :
             LET keys == { file.text[i][m][1] : m \in 1..Len(file.text[i]) }
             IN  /\ { "created_at", "modified_at" } \subseteq DOMAIN prompts'[i]
                 /\ ( "created_at" \notin keys /\ "modified_at" \notin keys )
                      => ( /\ prompts'[i]["created_at"] = clock'
                           /\ prompts'[i]["modified_at"] = clock' )
                 /\ ( "created_at" \notin keys \/ "modified_at" \notin keys )
                      => prompts'[i]["modified_at"] >= prompts'[i]["created_at"] ]_vars

====
